---- MODULE Spec2Model ----
(***************************************************************************)
(* A model of the watchtower core of python-teos:                          *)
(*   - pisa/chain_monitor.py   ChainMonitor (two detection threads, a lock, *)
(*                             two consumer queues)                        *)
(*   - pisa/appointment.py     Appointment (from_dict, to_dict, to_json)   *)
(*   - common/cryptographer.py Cryptographer (encrypt, decrypt)            *)
(* Byte strings are sequences of numbers 0..255, text strings are          *)
(* sequences of one-character strings.                                     *)
(***************************************************************************)
EXTENDS Integers, Sequences, FiniteSets, TLC

\* ------------------------------------------------------------------ bounds
\* number of distinct block hashes the node can report
NumHashes == 3
\* number of new-block events of the node in one behaviour
MaxBlocks == 2
\* number of failed best-tip queries in one behaviour
MaxFails == 1
\* the configured window sizes explored are 0..MaxWindow
MaxWindow == 1
\* number of required keys that may be absent or null in an input dict
MaxDefects == 1
\* check_tip.set() calls by the environment
MaxSignals == 1
\* the blob data explored are the strings of at most MaxDataLen characters
MaxDataLen == 4

\* ------------------------------------------------------- text and byte strings
\* Python's None
None == <<"None">>

HexLower == <<"0", "1", "2", "3", "4", "5", "6", "7", "8", "9", "a", "b", "c", "d", "e", "f">>

HexUpper == <<"0", "1", "2", "3", "4", "5", "6", "7", "8", "9", "A", "B", "C", "D", "E", "F">>

Range(s) == {s[i] : i \in 1..Len(s)}

HexChars == Range(HexLower) \cup Range(HexUpper)

IsHexChar(c) == c \in HexChars

\* the value 0..15 of a hex digit of either case
HexVal(c) == CHOOSE v \in 0..15 : HexLower[v + 1] = c \/ HexUpper[v + 1] = c

\* binascii.hexlify(b).decode(): two lowercase digits per byte
hexlify(b) ==
    [i \in 1..(2 * Len(b)) |->
        IF i % 2 = 1 THEN HexLower[(b[(i + 1) \div 2] \div 16) + 1]
        ELSE HexLower[(b[i \div 2] % 16) + 1]]

\* ------------------------------------------------------------------ state
VARIABLES
    \* ChainMonitor attributes
    best_tip, last_tips, terminate, lock, watcher_queue, responder_queue,
    \* the configured BLOCK_WINDOW_SIZE (fixed during a behaviour)
    block_window_size,
    \* monitor_chain (main thread), monitor_chain_polling, monitor_chain_zmq positions
    mainpc, pollpc, zmqpc,
    \* locals of the two loops
    current_tip, msg, block_hash,
    \* history: number of notifications delivered when each loop got its candidate
    poll_seen, zmq_seen,
    \* bitcoind: its best block (raw bytes), the hashblock messages in flight,
    \* blocks mined so far, failed queries so far
    chain_tip, zmq_feed, blocks, fails,
    \* history: best_tip and last_tips as update_state found them at its test
    old_best_tip, old_last_tips,
    \* the flag of the check_tip Event; history: what ended the last wait
    \* ("timeout" or "signal", "none" once the query is made), the check_tip.set()
    \* calls so far, and the queries made after a wait that the flag ended
    check_tip, woke, signals, early_polls,
    \* two Appointment.from_dict calls: the input dict, the position of the caller,
    \* the Appointment built (or None), the exception raised (or ""), and what
    \* to_dict and to_json(triggered) returned for it (None before the call)
    appt_data, appt_pc, appt_obj, appt_err, appt_dict, appt_json, appt_trig,
    \* one Cryptographer.encrypt call followed by one Cryptographer.decrypt call:
    \* blob.data and the secret given to encrypt, the secret given to decrypt, the
    \* position of the caller, what encrypt and decrypt returned (None before the
    \* call), and the exception raised (or ""); the data given to decrypt, and
    \* the operations the last call executed, in order
    c_data, c_secret, c_dsecret, c_pc, c_encrypted, c_decrypted, c_error,
    c_input, c_ops,
    \* one Cryptographer.sign call, one recover_pk call and one verify_rpk call:
    \* the message and the key given to sign, the position of the caller, what
    \* sign returned, the message and the signature given to recover_pk, what it
    \* returned, the exception that escaped it (or ""), the key whose public key
    \* is given to verify_rpk, and what verify_rpk returned
    s_message, s_sk, s_pc, s_sig, s_rmessage, s_zsig, s_rpk, s_error, s_vkey, s_verified

monVars == <<best_tip, last_tips, terminate, lock, watcher_queue, responder_queue,
             block_window_size, mainpc, pollpc, zmqpc, current_tip, msg, block_hash,
             poll_seen, zmq_seen, chain_tip, zmq_feed, blocks, fails,
             old_best_tip, old_last_tips, check_tip, woke, signals, early_polls>>

apptVars == <<appt_data, appt_pc, appt_obj, appt_err, appt_dict, appt_json, appt_trig>>

cryptVars == <<c_data, c_secret, c_dsecret, c_pc, c_encrypted, c_decrypted, c_error,
               c_input, c_ops>>

signVars == <<s_message, s_sk, s_pc, s_sig, s_rmessage, s_zsig, s_rpk, s_error, s_vkey,
              s_verified>>

\* the variables the chain monitor does not touch
pureVars == <<apptVars, cryptVars, signVars>>

vars == <<monVars, apptVars, cryptVars, signVars>>

\* ------------------------------------------------------------------ bitcoind
\* raw 1-byte block ids: 0xaa, 0xab, ...
BlockBodies == {<<169 + i>> : i \in 1..NumHashes}

Hashes == {hexlify(b) : b \in BlockBodies}

NoMsg == <<"", <<>>>>

\* BlockProcessor.get_best_block_hash(): the node's best block hash as hex, or
\* None when the RPC fails
BestBlockHashResults ==
    {hexlify(chain_tip)} \cup (IF fails < MaxFails THEN {None} ELSE {})

\* a new best block at the node (possibly a reorg back to an earlier hash);
\* the node publishes it on the hashblock feed
NewBlock ==
    /\ blocks < MaxBlocks
    /\ \E b \in BlockBodies \ {chain_tip} :
        /\ chain_tip' = b
        /\ zmq_feed' = IF zmqpc = "dead" THEN zmq_feed ELSE Append(zmq_feed, <<"hashblock", b>>)
    /\ blocks' = blocks + 1
    /\ UNCHANGED <<best_tip, last_tips, terminate, lock, watcher_queue,
                   responder_queue, block_window_size, mainpc, pollpc, zmqpc, current_tip,
                   msg, block_hash, poll_seen, zmq_seen, fails>>
    /\ UNCHANGED <<old_best_tip, old_last_tips, check_tip, woke, signals, early_polls>>
    /\ UNCHANGED pureVars

\* ------------------------------------------------------------------ ChainMonitor
Threads == {"polling", "zmq"}

PC(t) == IF t = "polling" THEN pollpc ELSE zmqpc

\* the candidate a loop passes to update_state / notify_subscribers
Cand(t) == IF t = "polling" THEN current_tip ELSE block_hash

Goto(t, p) ==
    IF t = "polling" THEN pollpc' = p /\ zmqpc' = zmqpc
    ELSE zmqpc' = p /\ pollpc' = pollpc

\* monitor_chain: bootstrap best_tip and start both threads
MonitorChain ==
    /\ mainpc = "idle"
    /\ \E r \in BestBlockHashResults :
        /\ best_tip' = r
        /\ fails' = IF r = None THEN fails + 1 ELSE fails
    /\ mainpc' = "running"
    /\ pollpc' = "loop"
    /\ zmqpc' = "loop"
    /\ UNCHANGED <<last_tips, terminate, lock, watcher_queue, responder_queue,
                   block_window_size, current_tip, msg, block_hash, poll_seen, zmq_seen,
                   chain_tip, zmq_feed, blocks>>
    /\ UNCHANGED <<old_best_tip, old_last_tips, check_tip, woke, signals, early_polls>>
    /\ UNCHANGED pureVars

\* the tower sets chain_monitor.terminate = True
SetTerminate ==
    /\ ~terminate
    /\ terminate' = TRUE
    /\ UNCHANGED <<best_tip, last_tips, lock, watcher_queue, responder_queue,
                   block_window_size, mainpc, pollpc, zmqpc, current_tip, msg, block_hash,
                   poll_seen, zmq_seen, chain_tip, zmq_feed, blocks, fails>>
    /\ UNCHANGED <<old_best_tip, old_last_tips, check_tip, woke, signals, early_polls>>
    /\ UNCHANGED pureVars

\* a caller outside the monitor wakes the polling loop: chain_monitor.check_tip.set()
SetCheckTip ==
    /\ mainpc = "running"
    /\ signals < MaxSignals
    /\ check_tip' = TRUE
    /\ signals' = signals + 1
    /\ UNCHANGED <<best_tip, last_tips, terminate, lock, watcher_queue, responder_queue,
                   block_window_size, mainpc, pollpc, zmqpc, current_tip, msg, block_hash,
                   poll_seen, zmq_seen, chain_tip, zmq_feed, blocks, fails>>
    /\ UNCHANGED <<old_best_tip, old_last_tips, woke, early_polls>>
    /\ UNCHANGED pureVars

\* mutant: the loop test ignores the terminate flag (while True)
LoopTestForever(t) ==
    /\ PC(t) = "loop"
    /\ Goto(t, IF t = "polling" THEN "wait" ELSE "recv")
    /\ UNCHANGED <<best_tip, last_tips, terminate, lock, watcher_queue,
                   responder_queue, block_window_size, mainpc, current_tip, msg, block_hash,
                   poll_seen, zmq_seen, chain_tip, zmq_feed, blocks, fails>>
    /\ UNCHANGED <<old_best_tip, old_last_tips, check_tip, woke, signals, early_polls>>
    /\ UNCHANGED pureVars

\* while not self.terminate  (either loop)
LoopTest(t) ==
    /\ PC(t) = "loop"
    /\ Goto(t, IF terminate THEN "done" ELSE IF t = "polling" THEN "wait" ELSE "recv")
    /\ UNCHANGED <<best_tip, last_tips, terminate, lock, watcher_queue,
                   responder_queue, block_window_size, mainpc, current_tip, msg, block_hash,
                   poll_seen, zmq_seen, chain_tip, zmq_feed, blocks, fails>>
    /\ UNCHANGED <<old_best_tip, old_last_tips, check_tip, woke, signals, early_polls>>
    /\ UNCHANGED pureVars

\* self.check_tip.wait(timeout=polling_delta): returns at once when the flag is
\* set, and when polling_delta has passed otherwise; wait leaves the flag alone
PollWait ==
    /\ pollpc = "wait"
    /\ pollpc' = "check"
    /\ woke' = IF check_tip THEN "signal" ELSE "timeout"
    /\ UNCHANGED <<best_tip, last_tips, terminate, lock, watcher_queue,
                   responder_queue, block_window_size, mainpc, zmqpc, current_tip, msg,
                   block_hash, poll_seen, zmq_seen, chain_tip, zmq_feed, blocks, fails>>
    /\ UNCHANGED <<old_best_tip, old_last_tips, check_tip, signals, early_polls>>
    /\ UNCHANGED pureVars

\* mutant: no recheck of the terminate flag after the wait
PollCheckNoRecheck ==
    /\ pollpc = "check"
    /\ pollpc' = "query"
    /\ UNCHANGED <<best_tip, last_tips, terminate, lock, watcher_queue,
                   responder_queue, block_window_size, mainpc, zmqpc, current_tip, msg,
                   block_hash, poll_seen, zmq_seen, chain_tip, zmq_feed, blocks, fails>>
    /\ UNCHANGED <<old_best_tip, old_last_tips, check_tip, woke, signals, early_polls>>
    /\ UNCHANGED pureVars

\* if not self.terminate  (polling, after the wait)
PollCheck ==
    /\ pollpc = "check"
    /\ pollpc' = IF ~terminate THEN "query" ELSE "loop"
    /\ UNCHANGED <<best_tip, last_tips, terminate, lock, watcher_queue,
                   responder_queue, block_window_size, mainpc, zmqpc, current_tip, msg,
                   block_hash, poll_seen, zmq_seen, chain_tip, zmq_feed, blocks, fails>>
    /\ UNCHANGED <<old_best_tip, old_last_tips, check_tip, woke, signals, early_polls>>
    /\ UNCHANGED pureVars

\* current_tip = BlockProcessor.get_best_block_hash()
PollQuery ==
    /\ pollpc = "query"
    /\ \E r \in BestBlockHashResults :
        /\ current_tip' = r
        /\ fails' = IF r = None THEN fails + 1 ELSE fails
    /\ poll_seen' = Len(watcher_queue)
    /\ pollpc' = "acquire"
    /\ early_polls' = IF woke = "signal" /\ early_polls <= MaxSignals
                      THEN early_polls + 1 ELSE early_polls
    /\ woke' = "none"
    /\ UNCHANGED <<best_tip, last_tips, terminate, lock, watcher_queue,
                   responder_queue, block_window_size, mainpc, zmqpc, msg, block_hash,
                   zmq_seen, chain_tip, zmq_feed, blocks>>
    /\ UNCHANGED <<old_best_tip, old_last_tips, check_tip, signals>>
    /\ UNCHANGED pureVars

\* msg = self.zmqSubSocket.recv_multipart(): blocks until a message is there
ZmqRecv ==
    /\ zmqpc = "recv"
    /\ zmq_feed # <<>>
    /\ msg' = Head(zmq_feed)
    /\ zmq_feed' = Tail(zmq_feed)
    /\ zmqpc' = "check"
    /\ UNCHANGED <<best_tip, last_tips, terminate, lock, watcher_queue,
                   responder_queue, block_window_size, mainpc, pollpc, current_tip,
                   block_hash, poll_seen, zmq_seen, chain_tip, blocks, fails>>
    /\ UNCHANGED <<old_best_tip, old_last_tips, check_tip, woke, signals, early_polls>>
    /\ UNCHANGED pureVars

\* recv_multipart raises (the socket faults): the exception ends the thread
ZmqFault ==
    /\ zmqpc = "recv"
    /\ zmqpc' = "dead"
    /\ zmq_feed' = <<>>
    /\ UNCHANGED <<best_tip, last_tips, terminate, lock, watcher_queue,
                   responder_queue, block_window_size, mainpc, pollpc, current_tip, msg,
                   block_hash, poll_seen, zmq_seen, chain_tip, blocks, fails>>
    /\ UNCHANGED <<old_best_tip, old_last_tips, check_tip, woke, signals, early_polls>>
    /\ UNCHANGED pureVars

\* mutant: the zmq loop does not look at terminate after recv
ZmqCheckNoRecheck ==
    /\ zmqpc = "check"
    /\ IF msg[1] = "hashblock"
       THEN /\ block_hash' = hexlify(msg[2])
            /\ zmq_seen' = Len(watcher_queue)
            /\ zmqpc' = "acquire"
       ELSE /\ zmqpc' = "loop"
            /\ UNCHANGED <<block_hash, zmq_seen>>
    /\ msg' = NoMsg
    /\ UNCHANGED <<best_tip, last_tips, terminate, lock, watcher_queue,
                   responder_queue, block_window_size, mainpc, pollpc, current_tip,
                   poll_seen, chain_tip, zmq_feed, blocks, fails>>
    /\ UNCHANGED <<old_best_tip, old_last_tips, check_tip, woke, signals, early_polls>>
    /\ UNCHANGED pureVars

\* if not self.terminate: topic, body = msg; if topic == b"hashblock":
\*     block_hash = binascii.hexlify(body).decode("utf-8")
ZmqCheck ==
    /\ zmqpc = "check"
    /\ IF ~terminate /\ msg[1] = "hashblock"
       THEN /\ block_hash' = hexlify(msg[2])
            /\ zmq_seen' = Len(watcher_queue)
            /\ zmqpc' = "acquire"
       ELSE /\ zmqpc' = "loop"
            /\ UNCHANGED <<block_hash, zmq_seen>>
    /\ msg' = NoMsg
    /\ UNCHANGED <<best_tip, last_tips, terminate, lock, watcher_queue,
                   responder_queue, block_window_size, mainpc, pollpc, current_tip,
                   poll_seen, chain_tip, zmq_feed, blocks, fails>>
    /\ UNCHANGED <<old_best_tip, old_last_tips, check_tip, woke, signals, early_polls>>
    /\ UNCHANGED pureVars

\* mutant: acquire does not wait for the other thread
LockAlwaysFree(t) == TRUE

\* whether thread t can take the lock
LockFreeFor(t) == lock = "free"

\* mutant: acquire takes the lock whoever holds it
AcquireNoWait(t) ==
    /\ PC(t) = "acquire"
    /\ lock' = t
    /\ Goto(t, "us_test")
    /\ UNCHANGED <<best_tip, last_tips, terminate, watcher_queue, responder_queue,
                   block_window_size, mainpc, current_tip, msg, block_hash, poll_seen,
                   zmq_seen, chain_tip, zmq_feed, blocks, fails>>
    /\ UNCHANGED <<old_best_tip, old_last_tips, check_tip, woke, signals, early_polls>>
    /\ UNCHANGED pureVars

\* self.lock.acquire()
Acquire(t) ==
    /\ PC(t) = "acquire"
    /\ LockFreeFor(t)
    /\ lock' = t
    /\ Goto(t, "us_test")
    /\ UNCHANGED <<best_tip, last_tips, terminate, watcher_queue, responder_queue,
                   block_window_size, mainpc, current_tip, msg, block_hash, poll_seen,
                   zmq_seen, chain_tip, zmq_feed, blocks, fails>>
    /\ UNCHANGED <<old_best_tip, old_last_tips, check_tip, woke, signals, early_polls>>
    /\ UNCHANGED pureVars

\* mutant: the candidate is compared with best_tip only
IsNewTipBestOnly(h) == h # best_tip

\* update_state, line 82: block_hash != self.best_tip and block_hash not in self.last_tips
IsNewTip(h) == h # best_tip /\ h \notin Range(last_tips)

UsTest(t) ==
    /\ PC(t) = "us_test"
    /\ Goto(t, IF IsNewTip(Cand(t)) THEN "us_append" ELSE "us_false")
    /\ old_best_tip' = best_tip
    /\ old_last_tips' = last_tips
    /\ UNCHANGED <<best_tip, last_tips, terminate, lock, watcher_queue,
                   responder_queue, block_window_size, mainpc, current_tip, msg, block_hash,
                   poll_seen, zmq_seen, chain_tip, zmq_feed, blocks, fails>>
    /\ UNCHANGED <<check_tip, woke, signals, early_polls>>
    /\ UNCHANGED pureVars

\* mutant: the previous tip is put at the front of the list
UsAppendFront(t) ==
    /\ PC(t) = "us_append"
    /\ last_tips' = <<best_tip>> \o last_tips
    /\ Goto(t, "us_set")
    /\ UNCHANGED <<best_tip, terminate, lock, watcher_queue, responder_queue,
                   block_window_size, mainpc, current_tip, msg, block_hash, poll_seen,
                   zmq_seen, chain_tip, zmq_feed, blocks, fails>>
    /\ UNCHANGED <<old_best_tip, old_last_tips, check_tip, woke, signals, early_polls>>
    /\ UNCHANGED pureVars

\* update_state, line 83: self.last_tips.append(self.best_tip)
UsAppend(t) ==
    /\ PC(t) = "us_append"
    /\ last_tips' = Append(last_tips, best_tip)
    /\ Goto(t, "us_set")
    /\ UNCHANGED <<best_tip, terminate, lock, watcher_queue, responder_queue,
                   block_window_size, mainpc, current_tip, msg, block_hash, poll_seen,
                   zmq_seen, chain_tip, zmq_feed, blocks, fails>>
    /\ UNCHANGED <<old_best_tip, old_last_tips, check_tip, woke, signals, early_polls>>
    /\ UNCHANGED pureVars

\* update_state, line 84: self.best_tip = block_hash
UsSet(t) ==
    /\ PC(t) = "us_set"
    /\ best_tip' = Cand(t)
    /\ Goto(t, "us_pop")
    /\ UNCHANGED <<last_tips, terminate, lock, watcher_queue, responder_queue,
                   block_window_size, mainpc, current_tip, msg, block_hash, poll_seen,
                   zmq_seen, chain_tip, zmq_feed, blocks, fails>>
    /\ UNCHANGED <<old_best_tip, old_last_tips, check_tip, woke, signals, early_polls>>
    /\ UNCHANGED pureVars

\* mutant: the caller notifies after update_state returned False
UsFalseNotifies(t) ==
    /\ PC(t) = "us_false"
    /\ Goto(t, "notify_w")
    /\ UNCHANGED <<best_tip, last_tips, terminate, lock, watcher_queue, responder_queue,
                   block_window_size, mainpc, current_tip, msg, block_hash, poll_seen,
                   zmq_seen, chain_tip, zmq_feed, blocks, fails>>
    /\ UNCHANGED <<old_best_tip, old_last_tips, check_tip, woke, signals, early_polls>>
    /\ UNCHANGED pureVars

\* update_state, lines 91-92: return False; the caller skips notify_subscribers
UsFalse(t) ==
    /\ PC(t) = "us_false"
    /\ Goto(t, "release")
    /\ UNCHANGED <<best_tip, last_tips, terminate, lock, watcher_queue, responder_queue,
                   block_window_size, mainpc, current_tip, msg, block_hash, poll_seen,
                   zmq_seen, chain_tip, zmq_feed, blocks, fails>>
    /\ UNCHANGED <<old_best_tip, old_last_tips, check_tip, woke, signals, early_polls>>
    /\ UNCHANGED pureVars

\* mutant: the bound is applied one element late
EvictLate(tips, size) == IF Len(tips) > size + 1 THEN Tail(tips) ELSE tips

\* update_state, lines 86-87: the list after the bound is applied
Evict(tips, size) == IF Len(tips) > size THEN Tail(tips) ELSE tips

\* update_state, lines 86-89: evict the oldest tip, return True
UsPop(t) ==
    /\ PC(t) = "us_pop"
    /\ last_tips' = Evict(last_tips, block_window_size)
    /\ Goto(t, "notify_w")
    /\ UNCHANGED <<best_tip, terminate, lock, watcher_queue, responder_queue,
                   block_window_size, mainpc, current_tip, msg, block_hash, poll_seen,
                   zmq_seen, chain_tip, zmq_feed, blocks, fails>>
    /\ UNCHANGED <<old_best_tip, old_last_tips, check_tip, woke, signals, early_polls>>
    /\ UNCHANGED pureVars

\* notify_subscribers, line 66: self.watcher_queue.put(block_hash)
NotifyWatcher(t) ==
    /\ PC(t) = "notify_w"
    /\ watcher_queue' = Append(watcher_queue, Cand(t))
    /\ Goto(t, "notify_r")
    /\ UNCHANGED <<best_tip, last_tips, terminate, lock, responder_queue,
                   block_window_size, mainpc, current_tip, msg, block_hash, poll_seen,
                   zmq_seen, chain_tip, zmq_feed, blocks, fails>>
    /\ UNCHANGED <<old_best_tip, old_last_tips, check_tip, woke, signals, early_polls>>
    /\ UNCHANGED pureVars

\* mutant: only the watcher is notified
NotifyResponderSkips(t) ==
    /\ PC(t) = "notify_r"
    /\ Goto(t, "release")
    /\ UNCHANGED <<best_tip, last_tips, terminate, lock, watcher_queue, responder_queue,
                   block_window_size, mainpc, current_tip, msg, block_hash, poll_seen,
                   zmq_seen, chain_tip, zmq_feed, blocks, fails>>
    /\ UNCHANGED <<old_best_tip, old_last_tips, check_tip, woke, signals, early_polls>>
    /\ UNCHANGED pureVars

\* notify_subscribers, line 67: self.responder_queue.put(block_hash)
NotifyResponder(t) ==
    /\ PC(t) = "notify_r"
    /\ responder_queue' = Append(responder_queue, Cand(t))
    /\ Goto(t, "release")
    /\ UNCHANGED <<best_tip, last_tips, terminate, lock, watcher_queue,
                   block_window_size, mainpc, current_tip, msg, block_hash, poll_seen,
                   zmq_seen, chain_tip, zmq_feed, blocks, fails>>
    /\ UNCHANGED <<old_best_tip, old_last_tips, check_tip, woke, signals, early_polls>>
    /\ UNCHANGED pureVars

\* mutant: the loop leaves the critical section without releasing the lock
ReleaseKeepsLock(t) ==
    /\ PC(t) = "release"
    /\ Goto(t, "loop")
    /\ IF t = "polling"
       THEN current_tip' = None /\ poll_seen' = 0 /\ UNCHANGED <<block_hash, zmq_seen>>
       ELSE block_hash' = None /\ zmq_seen' = 0 /\ UNCHANGED <<current_tip, poll_seen>>
    /\ old_best_tip' = None
    /\ old_last_tips' = <<>>
    /\ UNCHANGED <<best_tip, last_tips, terminate, lock, watcher_queue, responder_queue,
                   block_window_size, mainpc, msg, chain_tip, zmq_feed, blocks, fails>>
    /\ UNCHANGED <<check_tip, woke, signals, early_polls>>
    /\ UNCHANGED pureVars

\* self.lock.release(); the loop's candidate goes out of use
Release(t) ==
    /\ PC(t) = "release"
    /\ lock' = "free"
    /\ Goto(t, "loop")
    /\ IF t = "polling"
       THEN current_tip' = None /\ poll_seen' = 0 /\ UNCHANGED <<block_hash, zmq_seen>>
       ELSE block_hash' = None /\ zmq_seen' = 0 /\ UNCHANGED <<current_tip, poll_seen>>
    /\ old_best_tip' = None
    /\ old_last_tips' = <<>>
    /\ UNCHANGED <<best_tip, last_tips, terminate, watcher_queue, responder_queue,
                   block_window_size, mainpc, msg, chain_tip, zmq_feed, blocks, fails>>
    /\ UNCHANGED <<check_tip, woke, signals, early_polls>>
    /\ UNCHANGED pureVars

\* the steps both loops share: the critical section
Critical(t) ==
    \/ Acquire(t)
    \/ UsTest(t)
    \/ UsFalse(t)
    \/ UsAppend(t)
    \/ UsSet(t)
    \/ UsPop(t)
    \/ NotifyWatcher(t)
    \/ NotifyResponder(t)
    \/ Release(t)

\* monitor_chain_polling
PollThread ==
    \/ LoopTest("polling")
    \/ PollWait
    \/ PollCheck
    \/ PollQuery
    \/ Critical("polling")

\* monitor_chain_zmq (without the socket fault, which the environment decides)
ZmqThread ==
    \/ LoopTest("zmq")
    \/ ZmqRecv
    \/ ZmqCheck
    \/ Critical("zmq")

\* ------------------------------------------------------------------ Appointment
\* Python values: None, <<"int", digits>>, <<"str", text>>, <<"bool", "True"|"False">>.
\* A dict is the sequence of its <<key, value>> items in insertion order.

\* the five keys, in the order to_dict writes them
RequiredKeys == <<"locator", "start_time", "end_time", "to_self_delay", "encrypted_blob">>

HasKey(d, k) == \E i \in 1..Len(d) : d[i][1] = k

\* dict.get(k): the value, None when the key is absent
DictGet(d, k) == IF HasKey(d, k) THEN d[CHOOSE i \in 1..Len(d) : d[i][1] = k][2] ELSE None

\* EncryptedBlob(data): the object keeps the data it is given
EncryptedBlob(data) == [data |-> data]

\* Appointment.__init__
Appointment(locator, start_time, end_time, to_self_delay, encrypted_blob) ==
    [locator |-> locator, start_time |-> start_time, end_time |-> end_time,
     to_self_delay |-> to_self_delay, encrypted_blob |-> EncryptedBlob(encrypted_blob)]

\* mutant: a falsy value (0, "") counts as missing
AnyFalsy(values) == \E i \in 1..Len(values) : values[i] \in {None, <<"int", "0">>, <<"str", "">>}

\* from_dict, line 54: any(v is None for v in [...])
AnyNone(values) == \E i \in 1..Len(values) : values[i] = None

\* Appointment.from_dict: <<the appointment or None, the exception or "">>
from_dict(appointment_data) ==
    LET locator == DictGet(appointment_data, "locator")
        start_time == DictGet(appointment_data, "start_time")
        end_time == DictGet(appointment_data, "end_time")
        to_self_delay == DictGet(appointment_data, "to_self_delay")
        encrypted_blob_data == DictGet(appointment_data, "encrypted_blob")
    IN  IF AnyNone(<<locator, start_time, end_time, to_self_delay, encrypted_blob_data>>)
        THEN <<None, "ValueError">>
        ELSE <<Appointment(locator, start_time, end_time, to_self_delay, encrypted_blob_data), "">>

\* Appointment.to_dict
to_dict(self) ==
    << <<"locator", self.locator>>,
       <<"start_time", self.start_time>>,
       <<"end_time", self.end_time>>,
       <<"to_self_delay", self.to_self_delay>>,
       <<"encrypted_blob", self.encrypted_blob.data>> >>

\* d[k] = v on a dict
DictSet(d, k, v) ==
    IF HasKey(d, k) THEN [i \in 1..Len(d) |-> IF d[i][1] = k THEN <<k, v>> ELSE d[i]]
    ELSE Append(d, <<k, v>>)

\* the characters of the key names, and their order by code point ("_" < "a")
Alphabet == <<"_", "a", "b", "c", "d", "e", "f", "g", "h", "i", "j", "k", "l", "m", "n",
              "o", "p", "q", "r", "s", "t", "u", "v", "w", "x", "y", "z">>

KeyChars(k) ==
    CASE k = "locator" -> <<"l", "o", "c", "a", "t", "o", "r">>
      [] k = "start_time" -> <<"s", "t", "a", "r", "t", "_", "t", "i", "m", "e">>
      [] k = "end_time" -> <<"e", "n", "d", "_", "t", "i", "m", "e">>
      [] k = "to_self_delay" -> <<"t", "o", "_", "s", "e", "l", "f", "_", "d", "e", "l", "a", "y">>
      [] k = "encrypted_blob" -> <<"e", "n", "c", "r", "y", "p", "t", "e", "d", "_", "b", "l", "o", "b">>
      [] k = "triggered" -> <<"t", "r", "i", "g", "g", "e", "r", "e", "d">>

CodePoint(c) == CHOOSE i \in 1..Len(Alphabet) : Alphabet[i] = c

\* Python's str <: decided by the first position where the two differ
CharsLess(a, b) ==
    LET n == IF Len(a) < Len(b) THEN Len(a) ELSE Len(b)
        diff == {i \in 1..n : a[i] # b[i]}
    IN  IF diff = {} THEN Len(a) < Len(b)
        ELSE LET m == CHOOSE i \in diff : \A j \in diff : i <= j
             IN  CodePoint(a[m]) < CodePoint(b[m])

StrLess(j, k) == CharsLess(KeyChars(j), KeyChars(k))

\* sorted(d.items()) for distinct keys: each item goes to the place its key ranks
SortedItems(d) ==
    LET n == Len(d)
        rank == [i \in 1..n |-> Cardinality({j \in 1..n : StrLess(d[j][1], d[i][1])})]
    IN  [m \in 1..n |-> d[CHOOSE i \in 1..n : rank[i] = m - 1]]

\* json's encoding of a value, as tokens
JsonValue(v) ==
    CASE v = None -> <<"null">>
      [] v[1] = "int" -> <<v[2]>>
      [] v[1] = "bool" -> <<IF v[2] = "True" THEN "true" ELSE "false">>
      [] v[1] = "str" -> <<"\"", v[2], "\"">>

\* the items from the i-th on: "key":value, joined by ","
RECURSIVE JsonItems(_, _)
JsonItems(items, i) ==
    IF i > Len(items) THEN <<>>
    ELSE <<"\"", items[i][1], "\"", ":">> \o JsonValue(items[i][2])
         \o (IF i < Len(items) THEN <<",">> ELSE <<>>) \o JsonItems(items, i + 1)

\* mutant: json.dumps without sort_keys
JsonDumpsUnsorted(d) == <<"{">> \o JsonItems(d, 1) \o <<"}">>

\* json.dumps(d, sort_keys=True, separators=(",", ":"))
JsonDumps(d) == LET items == SortedItems(d) IN <<"{">> \o JsonItems(items, 1) \o <<"}">>

\* Appointment.to_json
to_json(self, triggered) ==
    LET appointment == DictSet(to_dict(self), "triggered", <<"bool", IF triggered THEN "True" ELSE "False">>)
    IN  JsonDumps(appointment)

Slots == {1, 2}

\* appointment = Appointment.from_dict(appointment_data)
FromDict(i) ==
    /\ appt_pc[i] = "new"
    /\ \E r \in {from_dict(appt_data[i])} :
           /\ appt_obj' = [appt_obj EXCEPT ![i] = r[1]]
           /\ appt_err' = [appt_err EXCEPT ![i] = r[2]]
           /\ appt_pc' = [appt_pc EXCEPT ![i] = IF r[2] = "" THEN "built" ELSE "raised"]
    /\ UNCHANGED <<appt_data, appt_dict, appt_json, appt_trig>>
    /\ UNCHANGED <<monVars, cryptVars, signVars>>

\* appointment.to_dict()
ToDict(i) ==
    /\ appt_pc[i] = "built"
    /\ appt_dict[i] = None
    /\ appt_dict' = [appt_dict EXCEPT ![i] = to_dict(appt_obj[i])]
    /\ UNCHANGED <<appt_data, appt_pc, appt_obj, appt_err, appt_json, appt_trig>>
    /\ UNCHANGED <<monVars, cryptVars, signVars>>

\* appointment.to_json(triggered)
ToJson(i) ==
    /\ appt_pc[i] = "built"
    /\ \E triggered \in BOOLEAN :
        /\ appt_json[i] = None \/ appt_trig[i] # triggered
        /\ appt_json' = [appt_json EXCEPT ![i] = to_json(appt_obj[i], triggered)]
        /\ appt_trig' = [appt_trig EXCEPT ![i] = triggered]
    /\ UNCHANGED <<appt_data, appt_pc, appt_obj, appt_err, appt_dict>>
    /\ UNCHANGED <<monVars, cryptVars, signVars>>

\* the input dicts explored
LocatorValues == {<<"str", "4a5e1e4baab89f3a32518a88c31bc87f">>}

StartTimeValues == {<<"int", "0">>, <<"int", "100">>}

ValuesOf(k) ==
    CASE k = "locator" -> LocatorValues
      [] k = "start_time" -> StartTimeValues
      [] k = "end_time" -> {<<"int", "120">>}
      [] k = "to_self_delay" -> {<<"int", "20">>}
      [] k = "encrypted_blob" -> {<<"str", "8f31028097a8bf12">>}
      [] k = "triggered" -> {<<"bool", "True">>}

AllKeys == {RequiredKeys[i] : i \in 1..5} \cup {"triggered"}

\* the key orders in which the input dicts are written
KeyOrders ==
    { <<"locator", "start_time", "end_time", "to_self_delay", "encrypted_blob", "triggered">>,
      <<"triggered", "encrypted_blob", "to_self_delay", "end_time", "start_time", "locator">>,
      <<"end_time", "triggered", "locator", "encrypted_blob", "start_time", "to_self_delay">> }

Absent == <<"absent">>

\* the dict with the items of content c (a value, None or Absent per key) in order o
RECURSIVE MakeDict(_, _)
MakeDict(c, o) ==
    IF o = <<>> THEN <<>>
    ELSE (IF c[Head(o)] = Absent THEN <<>> ELSE << <<Head(o), c[Head(o)]>> >>) \o MakeDict(c, Tail(o))

\* what an input dict may hold for key k
Options(k) == ValuesOf(k) \cup {Absent} \cup (IF k = "triggered" THEN {} ELSE {None})

\* a value for every required key (at most MaxDefects of them None or absent),
\* with or without the extra key "triggered"
Contents ==
    {c \in {[locator |-> a, start_time |-> b, end_time |-> e, to_self_delay |-> f,
             encrypted_blob |-> g, triggered |-> h] :
                a \in Options("locator"), b \in Options("start_time"),
                e \in Options("end_time"), f \in Options("to_self_delay"),
                g \in Options("encrypted_blob"), h \in Options("triggered")} :
        Cardinality({k \in AllKeys \ {"triggered"} : c[k] \in {None, Absent}}) <= MaxDefects}

InputDicts == {MakeDict(c, o) : c \in Contents, o \in KeyOrders}

\* the dicts with a value for all five required keys and no other key
CompleteDicts ==
    {MakeDict(c, o) :
        c \in {x \in Contents : \A k \in AllKeys :
                  IF k = "triggered" THEN x[k] = Absent ELSE x[k] \in ValuesOf(k)},
        o \in KeyOrders}

ApptIdle ==
    /\ appt_data = [i \in Slots |-> <<>>]
    /\ appt_pc = [i \in Slots |-> "off"]
    /\ appt_obj = [i \in Slots |-> None]
    /\ appt_err = [i \in Slots |-> ""]
    /\ appt_dict = [i \in Slots |-> None]
    /\ appt_json = [i \in Slots |-> None]
    /\ appt_trig = [i \in Slots |-> FALSE]

ApptInit ==
    /\ appt_data \in {d \in [Slots -> InputDicts] : d[2] \in CompleteDicts}
    /\ appt_pc = [i \in Slots |-> "new"]
    /\ appt_obj = [i \in Slots |-> None]
    /\ appt_err = [i \in Slots |-> ""]
    /\ appt_dict = [i \in Slots |-> None]
    /\ appt_json = [i \in Slots |-> None]
    /\ appt_trig = [i \in Slots |-> FALSE]

\* ------------------------------------------------------------------ Cryptographer
IsHex(s) == \A i \in 1..Len(s) : IsHexChar(s[i])

\* binascii.unhexlify(s) of a hex string of even length: one byte per two digits
unhexlify(s) == [i \in 1..(Len(s) \div 2) |-> 16 * HexVal(s[2 * i - 1]) + HexVal(s[2 * i])]

\* check_sha256_hex_format(value): a string of exactly 64 hex digits of either case
check_sha256_hex_format(value) == Len(value) = 64 /\ IsHex(value)

\* Blob(data): the object keeps the data it is given
Blob(data) == [data |-> data]

\* bytearray(n): n zero bytes
bytearray(n) == [i \in 1..n |-> 0]

\* hashlib.sha256(m).digest(): a stand-in with the digest's shape, 32 bytes fixed
\* by the bytes of m and their positions
sha256(m) ==
    LET n == Len(m)
    IN  [i \in 1..32 |->
            IF n = 0 THEN (31 * i) % 256
            ELSE (7 * m[((i - 1) % n) + 1] + 3 * m[(i % n) + 1] + 31 * i + n) % 256]

\* the ChaCha20 key stream of n bytes for a key and a nonce (a stand-in)
KeyStream(key, nonce, n) ==
    [i \in 1..n |-> (key[((i - 1) % 32) + 1] + nonce[((i - 1) % Len(nonce)) + 1] + 13 * i) % 256]

\* the Poly1305 tag of a ciphertext under a key (a stand-in): 16 bytes, different
\* for different ciphertexts of up to 16 bytes
Tag(key, ct) ==
    [i \in 1..16 |-> (key[i + 16] + (IF i <= Len(ct) THEN ct[i] ELSE 0) + 5 * Len(ct)) % 256]

\* ChaCha20Poly1305(key).encrypt(nonce, data, None): the ciphertext, then its tag
cipher_encrypt(key, nonce, data) ==
    LET ks == KeyStream(key, nonce, Len(data))
        ct == [i \in 1..Len(data) |-> (data[i] + ks[i]) % 256]
    IN  ct \o Tag(key, ct)

\* mutant: the tag is not compared
cipher_decrypt_no_tag(key, nonce, data) ==
    IF Len(data) < 16 THEN <<FALSE, <<>>>>
    ELSE LET n == Len(data) - 16
             ct == SubSeq(data, 1, n)
             ks == KeyStream(key, nonce, n)
         IN  <<TRUE, [i \in 1..n |-> (ct[i] - ks[i] + 256) % 256]>>

\* ChaCha20Poly1305(key).decrypt(nonce, data, None): <<TRUE, the plaintext>>, or
\* <<FALSE, <<>>>> for InvalidTag (data shorter than a tag, or the tag is wrong)
cipher_decrypt(key, nonce, data) ==
    IF Len(data) < 16 THEN <<FALSE, <<>>>>
    ELSE LET n == Len(data) - 16
             ct == SubSeq(data, 1, n)
             ks == KeyStream(key, nonce, n)
         IN  IF SubSeq(data, n + 1, n + 16) # Tag(key, ct) THEN <<FALSE, <<>>>>
             ELSE <<TRUE, [i \in 1..n |-> (ct[i] - ks[i] + 256) % 256]>>

\* Cryptographer.check_data_key_format: the exception raised, "" when it returns True
check_data_key_format(data, secret) ==
    IF Len(data) % 2 # 0 THEN "ValueError"
    ELSE IF ~check_sha256_hex_format(secret) THEN "ValueError"
    ELSE ""

\* mutant: the key is derived before the format check
encrypt_late_check(blob, secret) ==
    IF check_data_key_format(blob.data, secret) # ""
    THEN <<None, check_data_key_format(blob.data, secret),
           <<"unhexlify", "sha256", "check_data_key_format">> >>
    ELSE IF ~IsHex(blob.data)
    THEN <<None, "binascii.Error", <<"unhexlify", "sha256", "check_data_key_format", "unhexlify">> >>
    ELSE LET tx == unhexlify(blob.data)
             sk == sha256(unhexlify(secret))
             nonce == bytearray(12)
             encrypted_blob == cipher_encrypt(sk, nonce, tx)
         IN  <<hexlify(encrypted_blob), "",
               <<"unhexlify", "sha256", "check_data_key_format", "unhexlify",
                 "ChaCha20Poly1305.encrypt", "hexlify">> >>

\* Cryptographer.encrypt: <<the encrypted data (hex) or None, the exception or "",
\* the operations executed in order>>
encrypt(blob, secret) ==
    IF check_data_key_format(blob.data, secret) # ""
    THEN <<None, check_data_key_format(blob.data, secret), <<"check_data_key_format">> >>
    ELSE IF ~IsHex(blob.data)
    THEN <<None, "binascii.Error", <<"check_data_key_format", "unhexlify">> >>
    ELSE LET tx == unhexlify(blob.data)
             sk == sha256(unhexlify(secret))
             nonce == bytearray(12)
             encrypted_blob == cipher_encrypt(sk, nonce, tx)
         IN  <<hexlify(encrypted_blob), "",
               <<"check_data_key_format", "unhexlify", "unhexlify", "sha256",
                 "ChaCha20Poly1305.encrypt", "hexlify">> >>

\* mutant: the key is the hash of the secret's text, not of the bytes it encodes
decrypt_text_key(encrypted_blob, secret) ==
    IF check_data_key_format(encrypted_blob.data, secret) # ""
    THEN <<None, check_data_key_format(encrypted_blob.data, secret), <<"check_data_key_format">> >>
    ELSE IF ~IsHex(encrypted_blob.data)
    THEN <<None, "binascii.Error", <<"check_data_key_format", "sha256", "unhexlify">> >>
    ELSE LET text == [i \in 1..Len(secret) |->
                         IF \E v \in 1..10 : HexLower[v] = secret[i] THEN 48 + HexVal(secret[i])
                         ELSE IF secret[i] \in Range(HexLower) THEN 87 + HexVal(secret[i])
                         ELSE 55 + HexVal(secret[i])]
             sk == sha256(text)
             nonce == bytearray(12)
             data == unhexlify(encrypted_blob.data)
             blob == cipher_decrypt(sk, nonce, data)
         IN  IF blob[1]
             THEN <<hexlify(blob[2]), "",
                    <<"check_data_key_format", "sha256", "unhexlify",
                      "ChaCha20Poly1305.decrypt", "hexlify">> >>
             ELSE <<None, "",
                    <<"check_data_key_format", "sha256", "unhexlify",
                      "ChaCha20Poly1305.decrypt">> >>

\* Cryptographer.decrypt: <<the decrypted data (hex) or None, the exception or "",
\* the operations executed in order>>; None with no exception is the InvalidTag
\* case
decrypt(encrypted_blob, secret) ==
    IF check_data_key_format(encrypted_blob.data, secret) # ""
    THEN <<None, check_data_key_format(encrypted_blob.data, secret), <<"check_data_key_format">> >>
    ELSE IF ~IsHex(encrypted_blob.data)
    THEN <<None, "binascii.Error",
           <<"check_data_key_format", "unhexlify", "sha256", "unhexlify">> >>
    ELSE LET sk == sha256(unhexlify(secret))
             nonce == bytearray(12)
             data == unhexlify(encrypted_blob.data)
             blob == cipher_decrypt(sk, nonce, data)
         IN  IF blob[1]
             THEN <<hexlify(blob[2]), "",
                    <<"check_data_key_format", "unhexlify", "sha256", "unhexlify",
                      "ChaCha20Poly1305.decrypt", "hexlify">> >>
             ELSE <<None, "",
                    <<"check_data_key_format", "unhexlify", "sha256", "unhexlify",
                      "ChaCha20Poly1305.decrypt">> >>

\* the string of n characters that repeats pattern p
Repeat(p, n) == [i \in 1..n |-> p[((i - 1) % Len(p)) + 1]]

\* the secrets explored: 32-byte hex values in lowercase, in uppercase (the same
\* bytes) and another one; a 31-byte hex value; 64 characters that are not hex
Secrets ==
    {Repeat(<<"4", "a", "5", "e">>, 64), Repeat(<<"4", "A", "5", "E">>, 64),
     Repeat(<<"0", "f", "1", "b">>, 64), Repeat(<<"4", "a", "5", "e">>, 62),
     Repeat(<<"4", "g", "5", "e">>, 64)}

\* the characters of the blob data explored: hex digits of both cases and "g"
DataChars == {"a", "F", "g"}

DataStrings == UNION {[1..n -> DataChars] : n \in 0..MaxDataLen}

\* the hex string s with one bit of its i-th digit flipped
FlipBit(s, i) == [s EXCEPT ![i] = HexLower[((HexVal(s[i]) + 8) % 16) + 1]]

\* the data given to decrypt for an encrypted blob e: e itself; e with one bit
\* flipped, at any digit; e without its last digit (odd length); e without its
\* last byte; no data; 32 bytes that encrypt did not produce; text that is not hex
DecryptInputs(e) ==
    {e} \cup {FlipBit(e, i) : i \in 1..Len(e)}
        \cup {SubSeq(e, 1, Len(e) - 1), SubSeq(e, 1, Len(e) - 2), <<>>,
              Repeat(<<"6", "0", "9", "7">>, 64), <<"g", "g">>}

\* encrypted_blob = Cryptographer.encrypt(Blob(data), secret)
Encrypt ==
    /\ c_pc = "start"
    /\ \E r \in {encrypt(Blob(c_data), c_secret)} :
           /\ c_encrypted' = r[1]
           /\ c_error' = r[2]
           /\ c_ops' = r[3]
           /\ c_pc' = IF r[2] = "" THEN "encrypted" ELSE "raised"
    /\ UNCHANGED <<c_data, c_secret, c_dsecret, c_decrypted, c_input>>
    /\ UNCHANGED <<monVars, apptVars, signVars>>

\* Cryptographer.decrypt(EncryptedBlob(data), secret), with any secret, for what
\* encrypt returned or other data
Decrypt ==
    /\ c_pc = "encrypted"
    /\ \E secret \in Secrets, data \in DecryptInputs(c_encrypted) :
        \E r \in {decrypt(EncryptedBlob(data), secret)} :
            /\ c_dsecret' = secret
            /\ c_input' = data
            /\ c_decrypted' = r[1]
            /\ c_error' = r[2]
            /\ c_ops' = r[3]
            /\ c_pc' = IF r[2] = "" THEN "decrypted" ELSE "decrypt_raised"
    /\ UNCHANGED <<c_data, c_secret, c_encrypted>>
    /\ UNCHANGED <<monVars, apptVars, signVars>>

CryptIdle ==
    /\ c_data = <<>>
    /\ c_secret = <<>>
    /\ c_dsecret = <<>>
    /\ c_pc = "off"
    /\ c_encrypted = None
    /\ c_decrypted = None
    /\ c_error = ""
    /\ c_input = <<>>
    /\ c_ops = <<>>

CryptInit ==
    /\ c_data \in DataStrings
    /\ c_secret \in Secrets
    /\ c_dsecret = <<>>
    /\ c_pc = "start"
    /\ c_encrypted = None
    /\ c_decrypted = None
    /\ c_error = ""
    /\ c_input = <<>>
    /\ c_ops = <<>>

\* ------------------------------------------------------------------ Cryptographer: signatures
\* LN_MESSAGE_PREFIX = b"Lightning Signed Message:"
LN_MESSAGE_PREFIX ==
    <<76, 105, 103, 104, 116, 110, 105, 110, 103, 32, 83, 105, 103, 110, 101, 100, 32,
      77, 101, 115, 115, 97, 103, 101, 58>>

\* sha256d(message)
sha256d(message) == sha256(sha256(message))

\* coincurve.utils.int_to_bytes(num) for num >= 0: big-endian, at least one byte
\* (int.to_bytes raises OverflowError for num < 0)
int_to_bytes(num) == IF num < 256 THEN <<num>> ELSE <<num \div 256, num % 256>>

\* sigrec_encode(rsig_rid): the recovery id, plus 31, moves to the front
sigrec_encode(rsig_rid) ==
    LET rsig == SubSeq(rsig_rid, 1, 64)
        rid == rsig_rid[65]
    IN  int_to_bytes(rid + 31) \o rsig

\* mutant: the recovery id is read without removing the offset 31
sigrec_decode_keeps_offset(sigrec) ==
    IF Len(sigrec) = 0 THEN <<(<<>>), "IndexError">>
    ELSE <<Tail(sigrec) \o int_to_bytes(sigrec[1]), "">>

\* sigrec_decode(sigrec): <<the decoded signature, the exception or "">>;
\* sigrec[0] raises IndexError for no bytes, int_to_bytes raises OverflowError
\* for a first byte below 31
sigrec_decode(sigrec) ==
    IF Len(sigrec) = 0 THEN <<(<<>>), "IndexError">>
    ELSE IF sigrec[1] - 31 < 0 THEN <<(<<>>), "OverflowError">>
    ELSE <<Tail(sigrec) \o int_to_bytes(sigrec[1] - 31), "">>

\* the zbase32 alphabet: the character for each 5-bit value 0..31
ZBase32 ==
    <<"y", "b", "n", "d", "r", "f", "g", "8", "e", "j", "k", "m", "c", "p", "q", "x",
      "o", "t", "1", "u", "w", "i", "s", "z", "a", "3", "4", "5", "h", "7", "6", "9">>

Pow2 == <<1, 2, 4, 8, 16, 32, 64, 128, 256, 512, 1024, 2048>>

\* pyzbase32.encode_bytes(b).decode(): one character per 5 bits, the last group
\* padded with zero bits
encode_bytes(b) ==
    [k \in 1..((8 * Len(b) + 4) \div 5) |->
        LET at == (5 * (k - 1)) \div 8
            off == (5 * (k - 1)) % 8
            w == 256 * b[at + 1] + (IF at + 2 <= Len(b) THEN b[at + 2] ELSE 0)
        IN  ZBase32[((w \div Pow2[12 - off]) % 32) + 1]]

\* the 5-bit value of a zbase32 character
ZVal(c) == CHOOSE v \in 0..31 : ZBase32[v + 1] = c

\* pyzbase32.decode_bytes(s) for a string over the alphabet: the whole bytes
\* that its bits hold
decode_bytes(s) ==
    [j \in 1..((5 * Len(s)) \div 8) |->
        LET at == (8 * (j - 1)) \div 5
            off == (8 * (j - 1)) % 5
            w == 1024 * ZVal(s[at + 1]) + 32 * ZVal(s[at + 2])
                 + (IF at + 3 <= Len(s) THEN ZVal(s[at + 3]) ELSE 0)
        IN  (w \div Pow2[8 - off]) % 256]

\* PrivateKey(secret), a public key with its point, and the None that sign and
\* recover_pk return
PrivateKey(secret) == [type |-> "PrivateKey", val |-> secret]

PublicKey(point) == [type |-> "PublicKey", val |-> point]

NoValue == [type |-> "NoneType", val |-> <<>>]

\* sk.public_key (a stand-in for the curve: different keys, different points)
public_key(sk) == PublicKey([i \in 1..32 |-> (3 * sk.val[i] + 7) % 256])

\* sk.sign_recoverable(message, hasher=sha256d): 64 signature bytes, then the
\* recovery id 0..3 (a stand-in for ECDSA with the same shape)
sign_recoverable(sk, message) ==
    LET z == sha256d(message)
        r == [i \in 1..32 |-> (z[i] + 5 * sk.val[i] + 1) % 256]
        rid == r[32] % 4
        sg == [i \in 1..32 |-> (public_key(sk).val[i] + z[i] + r[i] + rid) % 256]
    IN  r \o sg \o <<rid>>

\* PublicKey.from_signature_and_message(rsig_recid, message, hasher=sha256d):
\* <<the key, "">>, or ValueError for a length other than 65, a recovery id
\* outside 0..3 or a signature that does not parse, or Exception when the
\* recovery fails
from_signature_and_message(rsig_recid, message) ==
    IF Len(rsig_recid) # 65 THEN <<NoValue, "ValueError">>
    ELSE IF rsig_recid[65] \notin 0..3 THEN <<NoValue, "ValueError">>
    ELSE IF \A i \in 1..32 : rsig_recid[i] = 255 THEN <<NoValue, "ValueError">>
    ELSE IF \A i \in 33..64 : rsig_recid[i] = 0 THEN <<NoValue, "Exception">>
    ELSE LET z == sha256d(message)
         IN  <<PublicKey([i \in 1..32 |->
                   (rsig_recid[32 + i] + 768 - z[i] - rsig_recid[i] - rsig_recid[65]) % 256]),
               "">>

\* Cryptographer.sign: the zbase32 signature, None for a message that is not
\* bytes or a key that is not a PrivateKey
sign(message, sk) ==
    IF message.type # "bytes" THEN NoValue
    ELSE IF sk.type # "PrivateKey" THEN NoValue
    ELSE LET rsig_rid == sign_recoverable(sk, LN_MESSAGE_PREFIX \o message.val)
             sigrec == sigrec_encode(rsig_rid)
             zb32_sig == encode_bytes(sigrec)
         IN  [type |-> "str", val |-> zb32_sig]

\* Cryptographer.recover_pk: <<the key recovered or None, the exception that
\* escapes or "">>; decoding the signature is outside the try block
recover_pk(message, zb32_sig) ==
    IF message.type # "bytes" THEN <<NoValue, "">>
    ELSE IF zb32_sig.type # "str" THEN <<NoValue, "">>
    ELSE LET sigrec == decode_bytes(zb32_sig.val)
             rsig_recid == sigrec_decode(sigrec)
         IN  IF rsig_recid[2] # "" THEN <<NoValue, rsig_recid[2]>>
             ELSE LET pk == from_signature_and_message(rsig_recid[1],
                                                       LN_MESSAGE_PREFIX \o message.val)
                  IN  IF pk[2] = "" THEN <<pk[1], "">> ELSE <<NoValue, "">>

\* Cryptographer.verify_rpk: pk.point() == rpk.point()
verify_rpk(pk, rpk) == pk.val = rpk.val

\* the keys explored: three private keys, and a str given as a key
PrivateKeys == {PrivateKey(Repeat(p, 32)) : p \in {<<36, 233>>, <<169, 129>>, <<1>>}}

KeyArgs == PrivateKeys \cup {[type |-> "str", val |-> <<>>]}

\* the messages explored: b"", b"Test", and the str "Test"
Messages ==
    {[type |-> "bytes", val |-> <<>>], [type |-> "bytes", val |-> <<84, 101, 115, 116>>],
     [type |-> "str", val |-> <<84, 101, 115, 116>>]}

\* the signatures given to recover_pk for a signature sig returned by sign: sig;
\* sig with the first byte of its 65 set to 0, 30, 35 or 255; sig with a first
\* half of 255s; sig with a second half of zeros; sig without its last byte;
\* "aaaaaaaa"; ""; and bytes instead of a str
SigArgs(sig) ==
    LET x == decode_bytes(sig.val)
        str(b) == [type |-> "str", val |-> encode_bytes(b)]
    IN  {sig, [type |-> "str", val |-> Repeat(<<"a">>, 8)], [type |-> "str", val |-> <<>>],
         [type |-> "bytes", val |-> <<>>],
         str([x EXCEPT ![1] = 0]), str([x EXCEPT ![1] = 30]), str([x EXCEPT ![1] = 35]),
         str([x EXCEPT ![1] = 255]),
         str([i \in 1..65 |-> IF i \in 2..33 THEN 255 ELSE x[i]]),
         str([i \in 1..65 |-> IF i \in 34..65 THEN 0 ELSE x[i]]),
         str(SubSeq(x, 1, 64))}

\* zb32_sig = Cryptographer.sign(message, sk)
Sign ==
    /\ s_pc = "start"
    /\ \E r \in {sign(s_message, s_sk)} :
           /\ s_sig' = r
           /\ s_pc' = IF r = NoValue THEN "unsigned" ELSE "signed"
    /\ UNCHANGED <<s_message, s_sk, s_rmessage, s_zsig, s_rpk, s_error, s_vkey, s_verified>>
    /\ UNCHANGED <<monVars, apptVars, cryptVars>>

\* rpk = Cryptographer.recover_pk(message, zb32_sig), for any message and for
\* the signature that sign returned or another one
RecoverPk ==
    /\ s_pc = "signed"
    /\ \E message \in Messages, zb32_sig \in SigArgs(s_sig) :
        \E r \in {recover_pk(message, zb32_sig)} :
            /\ s_rmessage' = message
            /\ s_zsig' = zb32_sig
            /\ s_rpk' = r[1]
            /\ s_error' = r[2]
            /\ s_pc' = IF r[2] # "" THEN "recover_raised"
                       ELSE IF r[1] = NoValue THEN "not_recovered" ELSE "recovered"
    /\ UNCHANGED <<s_message, s_sk, s_sig, s_vkey, s_verified>>
    /\ UNCHANGED <<monVars, apptVars, cryptVars>>

\* Cryptographer.verify_rpk(sk.public_key, rpk), for the public key of any key
VerifyRpk ==
    /\ s_pc = "recovered"
    /\ \E sk \in PrivateKeys :
        /\ s_vkey' = sk
        /\ s_verified' = verify_rpk(public_key(sk), s_rpk)
    /\ s_pc' = "verified"
    /\ UNCHANGED <<s_message, s_sk, s_sig, s_rmessage, s_zsig, s_rpk, s_error>>
    /\ UNCHANGED <<monVars, apptVars, cryptVars>>

SignIdle ==
    /\ s_message = NoValue
    /\ s_sk = NoValue
    /\ s_pc = "off"
    /\ s_sig = NoValue
    /\ s_rmessage = NoValue
    /\ s_zsig = NoValue
    /\ s_rpk = NoValue
    /\ s_error = ""
    /\ s_vkey = NoValue
    /\ s_verified = FALSE

SignInit ==
    /\ s_message \in Messages
    /\ s_sk \in KeyArgs
    /\ s_pc = "start"
    /\ s_sig = NoValue
    /\ s_rmessage = NoValue
    /\ s_zsig = NoValue
    /\ s_rpk = NoValue
    /\ s_error = ""
    /\ s_vkey = NoValue
    /\ s_verified = FALSE

\* ------------------------------------------------------------------ specifications
MonInit ==
    /\ best_tip = None
    /\ last_tips = <<>>
    /\ terminate = FALSE
    /\ lock = "free"
    /\ watcher_queue = <<>>
    /\ responder_queue = <<>>
    /\ block_window_size \in 0..MaxWindow
    /\ mainpc = "idle"
    /\ pollpc = "idle"
    /\ zmqpc = "idle"
    /\ current_tip = None
    /\ msg = NoMsg
    /\ block_hash = None
    /\ poll_seen = 0
    /\ zmq_seen = 0
    /\ chain_tip = <<170>>
    /\ zmq_feed = <<>>
    /\ blocks = 0
    /\ fails = 0
    /\ old_best_tip = None
    /\ old_last_tips = <<>>
    /\ check_tip = FALSE
    /\ woke = "none"
    /\ signals = 0
    /\ early_polls = 0

Init == MonInit /\ ApptIdle /\ CryptIdle /\ SignIdle

Next ==
    \/ MonitorChain
    \/ SetTerminate
    \/ NewBlock
    \/ ZmqFault
    \/ PollThread
    \/ ZmqThread

\* the chain monitor
Spec == Init /\ [][Next]_vars

\* both loops are scheduled fairly; the node and the tower's operator are not
FairSpec == Spec /\ WF_vars(PollThread) /\ WF_vars(ZmqThread)

\* the chain monitor with a caller that sets the check_tip event
WakeNext ==
    \/ Next
    \/ SetCheckTip

\* (the window size plays no part in the wait: it is fixed at 0 here)
WakeInit == MonInit /\ block_window_size = 0 /\ ApptIdle /\ CryptIdle /\ SignIdle

WakeSpec == WakeInit /\ [][WakeNext]_vars

\* Appointment: two input dicts, each built and serialized (the chain monitor is
\* not started)
ApptSpecInit == MonInit /\ block_window_size = 0 /\ ApptInit /\ CryptIdle /\ SignIdle

ApptNext ==
    \/ \E i \in Slots : FromDict(i)
    \/ \E i \in Slots : ToDict(i)
    \/ \E i \in Slots : ToJson(i)

ApptSpec == ApptSpecInit /\ [][ApptNext]_vars

\* Cryptographer: one blob encrypted under a secret, then decrypted (the chain
\* monitor is not started)
CryptSpecInit == MonInit /\ block_window_size = 0 /\ ApptIdle /\ CryptInit /\ SignIdle

CryptNext ==
    \/ Encrypt
    \/ Decrypt

CryptSpec == CryptSpecInit /\ [][CryptNext]_vars

\* Cryptographer: one message signed, a signature given to recover_pk, and the
\* key recovered compared with a public key (the chain monitor is not started)
SignSpecInit == MonInit /\ block_window_size = 0 /\ ApptIdle /\ CryptIdle /\ SignInit

SignNext ==
    \/ Sign
    \/ RecoverPk
    \/ VerifyRpk

SignSpec == SignSpecInit /\ [][SignNext]_vars

\* ------------------------------------------------------------------ ChainMonitor: properties
\* the number of notifications delivered when thread t got its candidate
Seen(t) == IF t = "polling" THEN poll_seen ELSE zmq_seen

\* the hashes delivered to the Watcher since thread t got its candidate
DeliveredSince(t) == SubSeq(watcher_queue, Seen(t) + 1, Len(watcher_queue))

\* the last n elements of a sequence (all of it when it is shorter)
LastN(s, n) == SubSeq(s, IF Len(s) > n THEN Len(s) - n + 1 ELSE 1, Len(s))

\* thread t is in update_state after the test at line 82 succeeded, or about to notify
Accepting(t) == PC(t) \in {"us_append", "us_set", "us_pop", "notify_w"}

\* thread t is not processing a candidate: at its loop test, in or just after its
\* blocking call, or finished
Quiet(t) == PC(t) \in {"idle", "loop", "wait", "recv", "check", "done", "dead"}

NoRepeat(q) == \A i, j \in 1..Len(q) : i < j => q[i] # q[j]

\* equal entries of q are at least d positions apart
SpacedBy(q, d) == \A i, j \in 1..Len(q) : (i < j /\ q[i] = q[j]) => j - i >= d

C3_NoDeliveryAfterTerminate ==
    [][terminate => (watcher_queue' = watcher_queue /\ responder_queue' = responder_queue)]_vars

\* C3 amended: once the terminate flag is set, a loop that is at its loop test, in
\* its blocking call or at its recheck never goes on to process a candidate, and
\* when both loops are there nothing is appended to a queue
C3_NoDeliveryOnceQuiet ==
    [][terminate =>
        /\ \A t \in Threads : Quiet(t) => Quiet(t)'
        /\ (\A t \in Threads : Quiet(t)) =>
               (watcher_queue' = watcher_queue /\ responder_queue' = responder_queue)]_vars

\* C3 witness: the flag is set, both loops have exited, notifications were delivered
C3_Witness ==
    terminate /\ pollpc = "done" /\ zmqpc = "done" /\ Len(watcher_queue) > 0

\* C4 as stated: once the flag is set both loops eventually exit
C4_BothLoopsExit ==
    (terminate /\ mainpc = "running") ~> (pollpc = "done" /\ zmqpc \in {"done", "dead"})

\* C4 amended: once the flag is set the polling loop eventually exits and never
\* enters its wait again (at most one more timer wake); the push loop exits once
\* its receive returns a message, and stays in the receive until then
C4_PollExitsPushNeedsMessage ==
    /\ (terminate /\ mainpc = "running") ~>
           (pollpc = "done" /\ zmqpc \in {"done", "dead", "recv"})
    /\ (terminate /\ zmqpc = "recv" /\ zmq_feed # <<>>) ~> (zmqpc \in {"done", "dead"})
    /\ [][terminate => ~(pollpc # "wait" /\ pollpc' = "wait")]_vars

\* C4 witness: the flag is set, the polling loop has exited, the push loop is
\* blocked in its receive with no message to come
C4_Witness ==
    terminate /\ pollpc = "done" /\ zmqpc = "recv" /\ zmq_feed = <<>> /\ blocks = MaxBlocks

\* C5: outside update_state's append-then-evict steps, last_tips is never longer
\* than the window size
C5_WindowBound ==
    (\A t \in Threads : PC(t) \notin {"us_set", "us_pop"}) =>
        Len(last_tips) <= block_window_size

\* C5 witness: more tips were accepted than the window holds, and the window is full
C5_Witness ==
    /\ lock = "free"
    /\ Len(watcher_queue) > block_window_size + 1
    /\ Len(last_tips) = block_window_size
    /\ block_window_size > 0

\* C6 as stated: a polling cycle whose best-tip query failed changes neither
\* best_tip nor last_tips and enqueues nothing
C6_FailedPollChangesNothing ==
    [][(lock = "polling" /\ current_tip = None) =>
        /\ best_tip' = best_tip
        /\ last_tips' = last_tips
        /\ watcher_queue' = watcher_queue
        /\ responder_queue' = responder_queue]_vars

\* C7: the push loop holds the lock only inside its critical section (never
\* while receiving, after a socket fault or after exiting), and a tip the polling
\* loop got from the node that is neither best_tip nor in last_tips is eventually
\* best_tip and the newest entry of both queues
C7_PollingProgress ==
    /\ [](zmqpc \in {"idle", "loop", "recv", "check", "acquire", "dead", "done"} => lock # "zmq")
    /\ \A h \in Hashes :
        (pollpc = "acquire" /\ current_tip = h /\ IsNewTip(h)) ~>
            /\ best_tip = h
            /\ watcher_queue # <<>> /\ watcher_queue[Len(watcher_queue)] = h
            /\ responder_queue # <<>> /\ responder_queue[Len(responder_queue)] = h

\* C7 witness: the push loop is dead and the polling loop has just delivered a tip
C7_Witness ==
    /\ zmqpc = "dead"
    /\ pollpc = "release"
    /\ Len(watcher_queue) > poll_seen
    /\ responder_queue[Len(responder_queue)] = current_tip

\* ------------------------------------------------------------------ Appointment: properties
\* the input dict has a value other than None for key k
Given(d, k) == HasKey(d, k) /\ DictGet(d, k) # None

\* what to_dict returned holds exactly the five required keys, each with the
\* value the input dict has for it
SameFive(out, in) ==
    /\ Len(out) = 5
    /\ \A k \in Range(RequiredKeys) : HasKey(out, k) /\ DictGet(out, k) = DictGet(in, k)

\* C8 as stated: from_dict raises and builds nothing when one of the five keys is
\* absent; it succeeds whenever all five keys are present, and to_dict of the
\* appointment built returns the five input values
C8_PresentKeysSucceed ==
    \A i \in Slots : appt_pc[i] # "new" =>
        IF \E k \in Range(RequiredKeys) : ~HasKey(appt_data[i], k)
        THEN appt_pc[i] = "raised" /\ appt_err[i] = "ValueError" /\ appt_obj[i] = None
        ELSE /\ appt_pc[i] = "built" /\ appt_err[i] = ""
             /\ appt_obj[i].locator = DictGet(appt_data[i], "locator")
             /\ appt_dict[i] # None => SameFive(appt_dict[i], appt_data[i])

\* C8 amended: from_dict raises ValueError and builds nothing when one of the five
\* keys is absent or has the value None; it succeeds whenever all five keys are
\* present with a value other than None, and to_dict of the appointment built
\* returns exactly the five input values
C8_GivenKeysSucceed ==
    \A i \in Slots : appt_pc[i] # "new" =>
        IF \E k \in Range(RequiredKeys) : ~Given(appt_data[i], k)
        THEN appt_pc[i] = "raised" /\ appt_err[i] = "ValueError" /\ appt_obj[i] = None
        ELSE /\ appt_pc[i] = "built" /\ appt_err[i] = ""
             /\ appt_obj[i].locator = DictGet(appt_data[i], "locator")
             /\ appt_dict[i] # None => SameFive(appt_dict[i], appt_data[i])

\* C8 witness: one from_dict call raised for a dict without the key locator, the
\* other built an appointment from a complete dict with start_time 0 and to_dict
\* was called on it
C8_Witness ==
    /\ appt_pc[1] = "raised"
    /\ ~HasKey(appt_data[1], "locator")
    /\ appt_pc[2] = "built"
    /\ DictGet(appt_data[2], "start_time") = <<"int", "0">>
    /\ appt_dict[2] # None

\* the canonical text of an appointment: the six keys in sorted order, no spaces
CanonicalJson(a, triggered) ==
    <<"{", "\"", "encrypted_blob", "\"", ":", "\"", a.encrypted_blob.data[2], "\"", ",",
      "\"", "end_time", "\"", ":", a.end_time[2], ",",
      "\"", "locator", "\"", ":", "\"", a.locator[2], "\"", ",",
      "\"", "start_time", "\"", ":", a.start_time[2], ",",
      "\"", "to_self_delay", "\"", ":", a.to_self_delay[2], ",",
      "\"", "triggered", "\"", ":", IF triggered THEN "true" ELSE "false", "}">>

\* C9: to_json is deterministic: two appointments with equal values in the five
\* fields and the same triggered value have the identical text, whatever the key
\* order of the dicts they were built from and however often to_json was called;
\* the text has the six keys in sorted order, triggered among them; and the
\* appointment is still the one from_dict built
C9_CanonicalJson ==
    /\ \A i, j \in Slots :
        (appt_json[i] # None /\ appt_json[j] # None
         /\ appt_obj[i] = appt_obj[j] /\ appt_trig[i] = appt_trig[j])
            => appt_json[i] = appt_json[j]
    /\ \A i \in Slots : appt_json[i] # None =>
        /\ appt_json[i] = CanonicalJson(appt_obj[i], appt_trig[i])
        /\ appt_obj[i] = from_dict(appt_data[i])[1]

\* C9 witness: two appointments with equal fields, built from dicts with
\* different key orders, were both serialized with triggered set, the first
\* after an earlier call without it
C9_Witness ==
    /\ appt_json[1] # None /\ appt_json[2] # None
    /\ appt_data[1] # appt_data[2]
    /\ appt_obj[1] = appt_obj[2]
    /\ appt_trig[1] /\ appt_trig[2]
    /\ appt_dict[1] # None

\* ------------------------------------------------------------------ Cryptographer: properties
\* the string with every uppercase hex digit replaced by its lowercase digit
Lower(s) == [i \in 1..Len(s) |-> IF IsHexChar(s[i]) THEN HexLower[HexVal(s[i]) + 1] ELSE s[i]]

\* blob.data is a hex string of even length and the secret has 64 hex digits
ValidPair == Len(c_data) % 2 = 0 /\ IsHex(c_data) /\ Len(c_secret) = 64 /\ IsHex(c_secret)

\* decrypt was called with what encrypt returned and the secret that encrypt was
\* called with
SameSecret ==
    c_pc \in {"decrypted", "decrypt_raised"} /\ c_dsecret = c_secret /\ c_input = c_encrypted

\* C10 as stated: for a valid blob/secret pair, of either letter case, encrypt
\* succeeds and decrypt with the same secret returns a value equal to blob.data
C10_RoundTripEqual ==
    ValidPair =>
        /\ c_pc \notin {"raised"}
        /\ SameSecret => (c_pc = "decrypted" /\ c_decrypted = c_data)

\* C10 amended: for a valid blob/secret pair encrypt succeeds and decrypt with the
\* same secret returns blob.data in lowercase (equal to blob.data when blob.data
\* has no uppercase digit)
C10_RoundTripLowercase ==
    ValidPair =>
        /\ c_pc \notin {"raised"}
        /\ SameSecret => (c_pc = "decrypted" /\ c_error = "" /\ c_decrypted = Lower(c_data))

\* C10 witness: a two-byte blob with uppercase digits went through encrypt and
\* decrypt under one uppercase secret
C10_Witness ==
    /\ c_pc = "decrypted"
    /\ c_dsecret = c_secret
    /\ c_input = c_encrypted
    /\ c_secret[2] = "A"
    /\ c_data = <<"F", "a", "a", "F">>
    /\ c_decrypted # None

\* a string of exactly 64 hex digits
Hex64(s) == Len(s) = 64 /\ \A i \in 1..Len(s) : s[i] \in HexChars

\* decrypt has been called
DecryptCalled == c_pc \in {"decrypted", "decrypt_raised"}

\* C11: encrypt and decrypt raise ValueError whenever the data has odd length or
\* the secret is not 64 hex digits; the format check is then the only operation
\* executed (no key derivation, no cipher operation) and nothing is returned
C11_FormatCheckFirst ==
    /\ (c_pc # "start" /\ (Len(c_data) % 2 = 1 \/ ~Hex64(c_secret))) =>
        /\ c_pc = "raised" /\ c_error = "ValueError"
        /\ c_encrypted = None
        /\ c_ops = <<"check_data_key_format">>
    /\ (DecryptCalled /\ (Len(c_input) % 2 = 1 \/ ~Hex64(c_dsecret))) =>
        /\ c_pc = "decrypt_raised" /\ c_error = "ValueError"
        /\ c_decrypted = None
        /\ c_ops = <<"check_data_key_format">>

\* C11 witness: decrypt raised for data of odd length given with a secret of 64
\* hex digits
C11_Witness ==
    /\ c_pc = "decrypt_raised"
    /\ Len(c_input) % 2 = 1
    /\ Hex64(c_dsecret)
    /\ c_ops = <<"check_data_key_format">>

\* the input of decrypt is well formatted: hex data of even length, a secret of
\* 64 hex digits
WellFormatted == DecryptCalled /\ Len(c_input) % 2 = 0 /\ IsHex(c_input) /\ Hex64(c_dsecret)

\* decrypt returned None and raised nothing
ReturnedNull == c_pc = "decrypted" /\ c_error = "" /\ c_decrypted = None

\* C12 as stated: for well-formatted input, decrypt returns None, and raises
\* nothing, when the data is not what encrypt returned or the secret is a
\* different one than the secret used to encrypt
C12_OtherSecretIsNull ==
    (WellFormatted /\ (c_input # c_encrypted \/ c_dsecret # c_secret)) => ReturnedNull

\* C12 amended: for well-formatted input, decrypt raises nothing, and returns None
\* when the data holds other bytes than encrypt returned or the secret encodes
\* other bytes than the secret used to encrypt (a secret that differs in letter
\* case only derives the same key)
C12_OtherKeyIsNull ==
    WellFormatted =>
        /\ c_pc = "decrypted" /\ c_error = ""
        /\ (unhexlify(c_input) # unhexlify(c_encrypted)
            \/ unhexlify(c_dsecret) # unhexlify(c_secret)) => ReturnedNull

\* C12 witness: decrypt returned None for an encrypted blob with one bit flipped,
\* given with the secret used to encrypt
C12_Witness ==
    /\ ReturnedNull
    /\ c_dsecret = c_secret
    /\ Len(c_data) = 4
    /\ \E i \in 1..Len(c_encrypted) : c_input = FlipBit(c_encrypted, i)

\* ------------------------------------------------------------------ Cryptographer: signature properties
\* recover_pk has been called
RecoverCalled == s_pc \in {"recover_raised", "not_recovered", "recovered", "verified"}

\* the bytes that the signature given to recover_pk decodes to
DecodedSig == decode_bytes(s_zsig.val)

\* the input of recover_pk is malformed: a message that is not bytes, a signature
\* that is not a str, that decodes to a length other than 65, whose first byte
\* minus 31 is not a recovery id 0..3, or that does not parse
Malformed ==
    \/ s_rmessage.type # "bytes"
    \/ s_zsig.type # "str"
    \/ Len(DecodedSig) # 65
    \/ DecodedSig[1] - 31 \notin 0..3
    \/ \A i \in 2..33 : DecodedSig[i] = 255

\* C13 as stated: recover_pk returns None, and raises nothing, for every malformed
\* input
C13_MalformedReturnsNull ==
    (RecoverCalled /\ Malformed) => (s_error = "" /\ s_rpk = NoValue)

\* 65-byte recoverable signatures with a recovery id 0..3 as their last byte
RecoverableSigs == {Repeat(<<a>>, 64) \o <<rid>> : a \in {0, 31, 255}, rid \in 0..3}

\* recover_pk was called with the message given to sign and the signature that
\* sign returned
RoundTrip == RecoverCalled /\ s_zsig = s_sig /\ s_rmessage = s_message

\* C14: sign returns a signature for a bytes message and a private key; recover_pk
\* of the message and that signature returns a key for which verify_rpk is true
\* against the public key of the signing key and false against the public key of
\* any other key; and the wire encoding is lossless: sigrec_decode(sigrec_encode(x))
\* = x for 65-byte signatures x with a recovery id 0..3, the signature made by
\* sign included
C14_SignRecoverRoundTrip ==
    /\ (s_pc # "start" /\ s_message.type = "bytes" /\ s_sk.type = "PrivateKey") =>
        /\ s_pc # "unsigned"
        /\ sigrec_decode(decode_bytes(s_sig.val))
               = <<sign_recoverable(s_sk, LN_MESSAGE_PREFIX \o s_message.val), "">>
    /\ RoundTrip => (s_pc \in {"recovered", "verified"} /\ s_error = "")
    /\ (RoundTrip /\ s_pc = "verified") => (s_verified <=> s_vkey = s_sk)
    /\ \A x \in RecoverableSigs : sigrec_decode(sigrec_encode(x)) = <<x, "">>

\* C14 witness: the key recovered from the signature of b"Test" was compared with
\* the public key of the signing key
C14_Witness ==
    /\ s_pc = "verified"
    /\ RoundTrip
    /\ Len(s_message.val) = 4
    /\ s_vkey = s_sk
    /\ s_verified

\* ------------------------------------------------------------------ ChainMonitor: critical section properties
\* thread t is between lock.acquire() and lock.release()
InCritical(t) ==
    PC(t) \in {"us_test", "us_append", "us_set", "us_pop", "us_false", "notify_w",
               "notify_r", "release"}

\* the state the lock protects
Shared == <<best_tip, last_tips, watcher_queue, responder_queue>>

\* C15: the two loops are never in the critical section together; a loop is in it
\* exactly while it holds the lock (so the lock is free after every critical
\* section); and while a loop is in it, best_tip, last_tips and the two queues
\* change only by that loop's own steps.
C15_MutualExclusion ==
    /\ [](~(InCritical("polling") /\ InCritical("zmq")))
    /\ [](\A t \in Threads : InCritical(t) <=> lock = t)
    /\ [][\A t \in Threads :
            (InCritical(t) /\ Shared' # Shared) => PC(t)' # PC(t)]_vars

\* one loop between its decision and its delivery while the other waits for the lock
C15_Witness ==
    \E t \in Threads : \E u \in Threads \ {t} :
        /\ PC(t) = "notify_r"
        /\ PC(u) = "acquire"
        /\ IsNewTip(Cand(u))

\* update_state, lines 83-87, as one step: the list and the bound it leaves
AfterAccept(tips, tip, size) ==
    LET appended == tips \o <<tip>>
    IN  IF Len(appended) > size
        THEN [i \in 1..(Len(appended) - 1) |-> appended[i + 1]]
        ELSE appended

\* update_state has returned True to loop t and nothing is delivered yet
Accepted(t) == PC(t) = "notify_w"

Known(h) == h = best_tip \/ \E i \in 1..Len(last_tips) : last_tips[i] = h

\* C17: when update_state is called with a candidate that equals best_tip or is
\* in last_tips, it takes the rejecting branch, returns False, and the loop goes
\* on to release the lock without notifying: from the test to the release,
\* best_tip, last_tips and both queues stay as they were.
C17_RejectFrame ==
    [][\A t \in Threads :
        /\ (PC(t) = "us_test" /\ Known(Cand(t))) =>
               (PC(t)' \in {"us_test", "us_false"} /\ UNCHANGED Shared)
        /\ PC(t) = "us_false" =>
               (PC(t)' \in {"us_false", "release"} /\ UNCHANGED Shared)
        /\ PC(t) = "release" =>
               (PC(t)' \in {"release", "loop"} /\ UNCHANGED Shared)]_vars

\* a candidate rejected because it is in last_tips (it is not best_tip)
C17_Witness ==
    \E t \in Threads :
        /\ PC(t) = "us_false"
        /\ Cand(t) # best_tip
        /\ \E i \in 1..Len(last_tips) : last_tips[i] = Cand(t)
        /\ watcher_queue # <<>>

\* loop t is at the test that follows its blocking call
AtRecheck(t) == PC(t) = "check"

\* C18: a loop whose blocking call has returned tests terminate before anything
\* else; when the flag is set at that test the loop goes back to its head without
\* a node query, an update_state call or an enqueue, its own locals untouched,
\* finds the flag set there too, and ends.
C18_RecheckAfterWait ==
    /\ [][\A t \in Threads :
            /\ (AtRecheck(t) /\ terminate) =>
                   /\ PC(t)' \in {"check", "loop"}
                   /\ Cand(t)' = Cand(t)
            /\ (PC(t) = "loop" /\ terminate) => PC(t)' \in {"loop", "done"}
            /\ PC(t) = "done" => PC(t)' = "done"]_vars
    /\ \A t \in Threads : (AtRecheck(t) /\ terminate) ~> (PC(t) = "done")

\* the flag was set while the zmq loop was blocked in recv, and a block message
\* has now arrived
C18_Witness ==
    /\ AtRecheck("zmq")
    /\ terminate
    /\ msg[1] = "hashblock"
    /\ watcher_queue = <<>>

\* C19 as stated: the polling loop makes at most one early query (a query after a
\* wait that the event, not the timer, ended) for each wake signal it was given.
C19_OneEarlyPollPerSignal == early_polls <= signals

\* every hash put on the watcher queue is on the responder queue too, in order
SameDeliveries == watcher_queue = responder_queue

\* C20: whenever the lock is free the two queues hold the same hashes in the same
\* order; while a loop holds the lock the watcher queue is at most its candidate
\* ahead; and the monitor only appends to either queue.
C20_QueuesAgree ==
    /\ [](lock = "free" => SameDeliveries)
    /\ [](\A t \in Threads :
            lock = t => \/ SameDeliveries
                        \/ PC(t) = "notify_r" /\ watcher_queue = Append(responder_queue, Cand(t)))
    /\ [][/\ Len(watcher_queue') >= Len(watcher_queue)
           /\ Len(responder_queue') >= Len(responder_queue)
           /\ SubSeq(watcher_queue', 1, Len(watcher_queue)) = watcher_queue
           /\ SubSeq(responder_queue', 1, Len(responder_queue)) = responder_queue]_vars

\* the lock is free and two different hashes were delivered, one by each loop's
\* turn in the critical section
C20_Witness ==
    /\ lock = "free"
    /\ Len(responder_queue) = 2
    /\ responder_queue[1] # responder_queue[2]
    /\ pollpc = "wait"
    /\ zmqpc = "recv"

\* monitor_chain has set best_tip and started both loops
Bootstrapped == mainpc = "running"

\* best_tip followed by the entries of last_tips
Tips == <<best_tip>> \o last_tips

\* the tips the monitor remembers are pairwise distinct and none is unset
TipsDistinctAndSet ==
    /\ \A i \in 1..Len(Tips) : Tips[i] # None
    /\ \A i \in 1..Len(Tips) : \A j \in 1..Len(Tips) : i # j => Tips[i] # Tips[j]

\* best_tip is the hash delivered last, to each consumer
BestTipDeliveredLast ==
    (lock = "free" /\ watcher_queue # <<>> /\ responder_queue # <<>>) =>
        /\ best_tip = watcher_queue[Len(watcher_queue)]
        /\ best_tip = responder_queue[Len(responder_queue)]

\* C21 as stated: in every state after the bootstrap, best_tip and the entries of
\* last_tips are pairwise distinct and none of them is unset, and with the lock
\* free and a notification delivered best_tip is the last hash put on each queue.
C21_TipsDistinctSetAndDelivered ==
    Bootstrapped => (TipsDistinctAndSet /\ BestTipDeliveredLast)

\* what does hold: the same, in the states where no node query has failed so far
\* and no loop is between update_state's append (line 83) and its assignment to
\* best_tip (line 84); the part about the queues holds in every state.
TipsSoundWhileQueriesSucceed ==
    /\ (Bootstrapped /\ fails = 0 /\ \A t \in Threads : PC(t) # "us_set") =>
           TipsDistinctAndSet
    /\ Bootstrapped => BestTipDeliveredLast

====
